---------------------------- MODULE Spec2Model ----------------------------
(***************************************************************************)
(* A model of the BoxED dataset importer (src/helpers.py and               *)
(* src/boxed_importer.py).                                                 *)
(*                                                                         *)
(* Strings are sequences of one-character strings, so that substring       *)
(* tests, slicing, digit-run extraction and Python's string ordering are   *)
(* computed rather than assumed.                                           *)
(*                                                                         *)
(* Three specifications share the module:                                  *)
(*   SpecName   get_clean_name applied to bounded raw names                *)
(*   SpecCrawl  file_crawler run twice over one set of files, each run     *)
(*              with its own directory-walk order                          *)
(*   Spec       BoxED.__init__ (load_pick_place, load_trajectories) and    *)
(*              the queries get_sequences and get_grasp_poses              *)
(***************************************************************************)
EXTENDS Integers, Sequences, FiniteSets, TLC

VARIABLES
    \* ---- get_clean_name ----
    rawName,          \* the argument `name`
    cleanName,        \* the returned string
    namePc,           \* "call" before the call, "returned" after it
    \* ---- the root folder ----
    fs,               \* the set of files under root_folder
    \* ---- file_crawler (SpecCrawl) ----
    target,           \* argument target_filename
    uniq,             \* argument uniq_seqs
    run,              \* which of the two runs is executing (1 or 2)
    walked,           \* files os.walk has yielded so far in this run, in order
    all_file_paths,   \* local list of file_crawler
    part_scene_nums,  \* local list of file_crawler
    walk1,            \* the complete walk order of run 1
    result1,          \* what run 1 returned: <<files, identities>>
    result2,          \* what run 2 returned
    crawlPc,          \* "walk" | "done"
    \* ---- BoxED (Spec) ----
    load_cam_traj,    \* constructor flag
    pc,               \* position inside __init__ / after it
    err,              \* the exception that ended construction ("" if none)
    pickplace_files,  \* load_pick_place: list returned by file_crawler
    pp_nums,          \* load_pick_place: identities returned by file_crawler
    start_idx,        \* load_pick_place: local start_idx
    loop_i,           \* load_pick_place: loop variable i (0-based)
    trajectory_files, \* load_trajectories: list returned by file_crawler
    traj_nums,        \* load_trajectories: identities returned by file_crawler
    part_idx,         \* load_trajectories: index of the participant being done
    participants,     \* self.participants
    call,             \* the last query made on the finished dataset
    ret               \* what that query returned

nameVars  == <<rawName, cleanName, namePc>>
crawlVars == <<target, uniq, run, walked, all_file_paths, part_scene_nums,
               walk1, result1, result2, crawlPc>>
mainVars  == <<load_cam_traj, pc, err, pickplace_files, pp_nums, start_idx,
               loop_i, trajectory_files, traj_nums, part_idx, participants,
               call, ret>>
vars      == <<nameVars, fs, crawlVars, mainVars>>

---------------------------------------------------------------------------
(* Bounds of the model *)

\* longest raw name given to get_clean_name
MaxNameLen == 4
\* most files under the root folder
MaxFiles == 3

---------------------------------------------------------------------------
(* Strings *)

\* The characters that occur in the model, in ascending code-point order.
Ascii ==
    <<" ", "(", ")", "-", "/", "0", "1", "2", "3", "4", "5", "6", "7", "8",
      "9", "<", ">", "C", "P", "_", "a", "b", "c", "d", "e", "f", "g", "h",
      "i", "j", "k", "l", "m", "n", "o", "p", "q", "r", "s", "t", "u", "v",
      "w", "x", "y", "z">>

\* Position of a character in code-point order (Python compares str by it).
CharRank(c) == CHOOSE i \in 1..Len(Ascii) : Ascii[i] = c

Digits == <<"0", "1", "2", "3", "4", "5", "6", "7", "8", "9">>

IsDigit(c) == \E i \in 1..10 : Digits[i] = c

DigitVal(c) == (CHOOSE i \in 1..10 : Digits[i] = c) - 1

SetMin(S) == CHOOSE x \in S : \A y \in S : x <= y

\* Python: needle in hay
Contains(hay, needle) ==
    \E i \in 0..(Len(hay) - Len(needle)) :
        SubSeq(hay, i + 1, i + Len(needle)) = needle

\* Python: s.find(c) for a one-character c; -1 when absent, else 0-based.
Find(s, c) ==
    LET hits == {i \in 1..Len(s) : s[i] = c}
    IN  IF hits = {} THEN -1 ELSE SetMin(hits) - 1

\* Python: a < b on str
StrLess(a, b) ==
    LET n    == IF Len(a) < Len(b) THEN Len(a) ELSE Len(b)
        diff == {i \in 1..n : a[i] # b[i]}
    IN  IF diff = {} THEN Len(a) < Len(b)
        ELSE LET i == SetMin(diff) IN CharRank(a[i]) < CharRank(b[i])

\* Python: a < b on tuples of int
IntTupleLess(a, b) ==
    LET n    == IF Len(a) < Len(b) THEN Len(a) ELSE Len(b)
        diff == {i \in 1..n : a[i] # b[i]}
    IN  IF diff = {} THEN Len(a) < Len(b)
        ELSE LET i == SetMin(diff) IN a[i] < b[i]

RECURSIVE ScanDigits(_, _, _, _, _)
ScanDigits(s, i, cur, inRun, acc) ==
    IF i > Len(s) THEN (IF inRun THEN Append(acc, cur) ELSE acc)
    ELSE IF IsDigit(s[i])
         THEN ScanDigits(s, i + 1, cur * 10 + DigitVal(s[i]), TRUE, acc)
         ELSE ScanDigits(s, i + 1, 0, FALSE,
                         IF inRun THEN Append(acc, cur) ELSE acc)

\* tuple(int(s) for s in re.findall(r'\d+', path))
DigitRuns(path) == ScanDigits(path, 1, 0, FALSE, <<>>)

---------------------------------------------------------------------------
(* get_clean_name, src/helpers.py *)

PyMin(a, b) == IF a < b THEN a ELSE b

PyMax(a, b) == IF a > b THEN a ELSE b

\* delete_idx as lines 44-50 compute it
DeleteIdx(name) ==
    LET idx1 == Find(name, "(")
        idx2 == Find(name, "-")
    IN  IF idx1 # -1 \/ idx2 # -1
        THEN (IF PyMin(idx1, idx2) > 0
              THEN PyMin(idx1, idx2)
              ELSE PyMax(idx1, idx2))
        ELSE Len(name)

\* name[0:delete_idx]
get_clean_name(name) == SubSeq(name, 1, DeleteIdx(name))

NameChars == {"(", "-", "a"}

RawNames == UNION {[1..n -> NameChars] : n \in 0..MaxNameLen}

NameInit ==
    /\ rawName \in RawNames
    /\ cleanName = <<>>
    /\ namePc = "call"

NameIdle ==
    /\ rawName = <<>>
    /\ cleanName = <<>>
    /\ namePc = "idle"

CleanName ==
    /\ namePc = "call"
    /\ cleanName' = get_clean_name(rawName)
    /\ namePc' = "returned"
    /\ UNCHANGED <<rawName, fs, crawlVars, mainVars>>

---------------------------------------------------------------------------
(* The files under the root folder *)

PICKPLACE == <<"P","i","c","k","P","l","a","c","e","_","d","a","t","a","s","e","t">>

TRAJECTORY == <<"t","r","a","j","e","c","t","o","r","y">>

MAIN_CAMERA == <<"m","a","i","n","_","c","a","m","e","r","a","_","t","r","a","j","e","c","t","o","r","y">>

\* Scene directories below the root folder "d".
Dir25_1 == <<"d","/","2","5","/","1">>

Dir26_0 == <<"d","/","2","6","/","0">>

Dir26_1 == <<"d","/","2","6","/","1">>

Dir26_2 == <<"d","/","2","6","/","2">>

\* os.path.join(path, name)
Join(path, name) == path \o <<"/">> \o name

PathOf(f) == Join(f.dir, f.name)

File(d, n, data) == [dir |-> d, name |-> n, data |-> data]

\* Raw object ids as the PickPlace files hold them.
Id_mug1 == <<"0","2","5"," ","m","u","g","-","0","0","0","1">>

Id_mug2 == <<"0","2","5"," ","m","u","g","(","C","l","o","n","e",")","-","0","0","0","2">>

Id_pear3 == <<"0","1","6"," ","p","e","a","r","-","0","0","0","3">>

\* One element of a PickPlace file's JSON array; the numbers stand for the
\* rotation matrices and translation vectors.
ObjData(id, k) ==
    [id |-> id, pickRotation |-> k, pickTranslation |-> k + 1,
     placeRotation |-> k + 2, placeTranslation |-> k + 3]

\* One element of a trajectory file's JSON array.
TrajData(k) == [rotation |-> k, translation |-> k + 1, timeStamp |-> 100 * k]

PickPlace2 == <<"P","i","c","k","P","l","a","c","e","_","d","a","t","a","s","e","t","2">>

MugTraj1 == <<"0","2","5"," ","m","u","g","-","0","0","0","1","_","t","r","a","j","e","c","t","o","r","y">>

MugTraj2 == <<"0","2","5"," ","m","u","g","-","0","0","0","2","_","t","r","a","j","e","c","t","o","r","y">>

PP_25_1 == File(Dir25_1, PICKPLACE, <<ObjData(Id_mug1, 10)>>)

PP_26_0 == File(Dir26_0, PICKPLACE, <<ObjData(Id_pear3, 20)>>)

PP_26_1 == File(Dir26_1, PICKPLACE, <<ObjData(Id_mug1, 30), ObjData(Id_mug2, 40)>>)

PP_26_2 == File(Dir26_2, PICKPLACE, <<ObjData(Id_pear3, 50), ObjData(Id_mug1, 60)>>)

PP2_26_1 == File(Dir26_1, PickPlace2, <<ObjData(Id_pear3, 70)>>)

TR1_26_1 == File(Dir26_1, MugTraj1, <<TrajData(1), TrajData(2)>>)

TR2_26_1 == File(Dir26_1, MugTraj2, <<TrajData(3)>>)

TR1_26_2 == File(Dir26_2, MugTraj1, <<TrajData(4)>>)

CAM_26_1 == File(Dir26_1, MAIN_CAMERA, <<TrajData(5), TrajData(6)>>)

CAM_25_1 == File(Dir25_1, MAIN_CAMERA, <<>>)

\* The files a root folder of the model may hold.  Every directory follows
\* the dataset's naming convention (two digit runs: participant, scene), so
\* part_scene_number[1] of line 24 is always defined, and every object id
\* ends in four digits.
Universe ==
    {PP_25_1, PP_26_0, PP_26_1, PP_26_2, PP2_26_1,
     TR1_26_1, TR2_26_1, TR1_26_2, CAM_26_1, CAM_25_1}

\* The files a root folder may hold when file_crawler is run on its own.
CrawlUniverse ==
    {PP_25_1, PP_26_0, PP_26_1, PP2_26_1, TR1_26_1, TR2_26_1}

\* open(path): the file of the root folder with that path
FileAt(path) == CHOOSE f \in fs : PathOf(f) = path

---------------------------------------------------------------------------
(* file_crawler, src/helpers.py *)

\* Files os.walk may yield next: the files of one directory are yielded
\* together, in an order the filesystem chooses.
Yieldable(seq, S) ==
    LET seen == {seq[i] : i \in 1..Len(seq)}
        left == S \ seen
        here == IF seq = <<>> THEN {}
                ELSE {g \in left : g.dir = seq[Len(seq)].dir}
    IN  IF here # {} THEN here ELSE left

RECURSIVE Extend(_, _)
Extend(seq, S) ==
    IF Yieldable(seq, S) = {} THEN {seq}
    ELSE UNION {Extend(Append(seq, f), S) : f \in Yieldable(seq, S)}

\* Every order in which os.walk may enumerate the files of S.
WalkOrders(S) == Extend(<<>>, S)

\* The uniq_seqs test of line 24, negated: the identities that are kept.
PassesUniq(part_scene_number) ==
    ~(part_scene_number[2] # 1 \/ part_scene_number[1] < 26)

\* Body of the loop over the walked files (lines 17-28).
CrawlStep(acc, f, tgt, u) ==
    IF Contains(f.name, tgt)
    THEN LET part_scene_number == DigitRuns(f.dir)
         IN  IF u /\ ~PassesUniq(part_scene_number)
             THEN acc
             ELSE [files |-> Append(acc.files, PathOf(f)),
                   nums  |-> Append(acc.nums, part_scene_number)]
    ELSE acc

\* Python: zip(a, b)
Zip(a, b) == [i \in 1..PyMin(Len(a), Len(b)) |-> <<a[i], b[i]>>]

\* A sort keyed on the identity alone: ties keep their discovery order.
PairLessByIdentity(x, y) == IntTupleLess(x[1], y[1])

\* Python: x < y on (identity, path) tuples
PairLess(x, y) ==
    IF x[1] # y[1] THEN IntTupleLess(x[1], y[1]) ELSE StrLess(x[2], y[2])

\* One step of a stable insertion sort: x goes before the first larger one.
Insert(s, x) ==
    LET larger == {i \in 1..Len(s) : PairLess(x, s[i])}
        p      == IF larger = {} THEN Len(s) + 1 ELSE SetMin(larger)
    IN  SubSeq(s, 1, p - 1) \o <<x>> \o SubSeq(s, p, Len(s))

RECURSIVE SortedUpTo(_, _)
SortedUpTo(s, n) == IF n = 0 THEN <<>> ELSE Insert(SortedUpTo(s, n - 1), s[n])

\* Python: sorted(s)
Sorted(s) == SortedUpTo(s, Len(s))

\* The paths left in discovery order.
UnsortedPaths(nums, paths) == paths

\* line 32: [x for _, x in sorted(zip(part_scene_nums, all_file_paths))]
SortedPaths(nums, paths) ==
    LET z == Sorted(Zip(nums, paths)) IN [i \in 1..Len(z) |-> z[i][2]]

\* The identities left in discovery order.
UnsortedNums(nums, paths) == nums

\* line 33: [x for x, _ in sorted(zip(part_scene_nums, all_file_paths))],
\* where all_file_paths is by now the list line 32 sorted
SortedNums(nums, paths) ==
    LET z == Sorted(Zip(nums, paths)) IN [i \in 1..Len(z) |-> z[i][1]]

\* The post-walk sort skipped: both lists returned in discovery order.
CrawlReturnUnsorted(acc) == <<acc.files, acc.nums>>

\* lines 32-34
CrawlReturn(acc) ==
    LET sortedPaths == SortedPaths(acc.nums, acc.files)
    IN  <<sortedPaths, SortedNums(acc.nums, sortedPaths)>>

RECURSIVE CrawlLoop(_, _, _, _)
CrawlLoop(order, n, tgt, u) ==
    IF n = 0 THEN [files |-> <<>>, nums |-> <<>>]
    ELSE CrawlStep(CrawlLoop(order, n - 1, tgt, u), order[n], tgt, u)

\* file_crawler(root_folder, target_filename, uniq_seqs) when os.walk
\* enumerates the files in `order`
file_crawler(order, tgt, u) == CrawlReturn(CrawlLoop(order, Len(order), tgt, u))

None == "None"

CrawlInit ==
    /\ target \in {PICKPLACE, TRAJECTORY}
    /\ uniq \in BOOLEAN
    /\ run = 1
    /\ walked = <<>>
    /\ all_file_paths = <<>>
    /\ part_scene_nums = <<>>
    /\ walk1 = <<>>
    /\ result1 = None
    /\ result2 = None
    /\ crawlPc = "walk"

CrawlIdle ==
    /\ target = <<>>
    /\ uniq = FALSE
    /\ run = 0
    /\ walked = <<>>
    /\ all_file_paths = <<>>
    /\ part_scene_nums = <<>>
    /\ walk1 = <<>>
    /\ result1 = None
    /\ result2 = None
    /\ crawlPc = "idle"

\* os.walk yields one more file and the loop body runs on it.
Walk ==
    /\ crawlPc = "walk"
    /\ \E f \in Yieldable(walked, fs) :
          LET acc == CrawlStep([files |-> all_file_paths, nums |-> part_scene_nums],
                               f, target, uniq)
          IN  /\ walked' = Append(walked, f)
              /\ all_file_paths' = acc.files
              /\ part_scene_nums' = acc.nums
    /\ UNCHANGED <<nameVars, fs, target, uniq, run, walk1, result1, result2,
                   crawlPc, mainVars>>

\* The walk is over: sort and return; the second run then starts afresh.
\* After the second run `walked` is left as it is, as the record of that
\* run's walk order.
Return ==
    /\ crawlPc = "walk"
    /\ Yieldable(walked, fs) = {}
    /\ LET res == CrawlReturn([files |-> all_file_paths, nums |-> part_scene_nums])
       IN  IF run = 1
           THEN /\ result1' = res
                /\ walk1' = walked
                /\ run' = 2
                /\ walked' = <<>>
                /\ UNCHANGED <<result2, crawlPc>>
           ELSE /\ result2' = res
                /\ crawlPc' = "done"
                /\ UNCHANGED <<result1, walk1, run, walked>>
    /\ all_file_paths' = <<>>
    /\ part_scene_nums' = <<>>
    /\ UNCHANGED <<nameVars, fs, target, uniq, mainVars>>

---------------------------------------------------------------------------
(* The data classes, src/boxed_importer.py *)

Pose(rotation, translation) == [rotation |-> rotation, translation |-> translation]

PoseWithTime(rotation, translation, time_stamp) ==
    [rotation |-> rotation, translation |-> translation, time_stamp |-> time_stamp]

\* Python: name[-4:]
Last4(name) == SubSeq(name, PyMax(Len(name) - 4, 0) + 1, Len(name))

\* int() accepts the decimal strings the model's ids end with
IsDecimal(s) == Len(s) > 0 /\ \A i \in 1..Len(s) : IsDigit(s[i])

RECURSIVE PyInt(_)
PyInt(s) ==
    IF s = <<>> THEN 0
    ELSE 10 * PyInt(SubSeq(s, 1, Len(s) - 1)) + DigitVal(s[Len(s)])

\* Obj.add_obj_info on a fresh ObjWithTraj
add_obj_info(obj_data) ==
    [name       |-> get_clean_name(obj_data.id),
     unique_id  |-> PyInt(Last4(obj_data.id)),
     pick_pose  |-> Pose(obj_data.pickRotation, obj_data.pickTranslation),
     place_pose |-> Pose(obj_data.placeRotation, obj_data.placeTranslation),
     trajectory |-> <<>>]

\* json.load of a trajectory file, each record made a PoseWithTime
\* (ObjWithTraj.add_traj, lines 55-60)
LoadTraj(traj_file) ==
    LET data == FileAt(traj_file).data
    IN  [k \in 1..Len(data) |->
            PoseWithTime(data[k].rotation, data[k].translation, data[k].timeStamp)]

\* ObjWithTraj.add_traj
add_traj(obj, traj_file) ==
    [obj EXCEPT !.trajectory = obj.trajectory \o LoadTraj(traj_file)]

\* Scene.add_objects on a fresh Scene
Scene_add_objects(scene_file, scene_number) ==
    LET data == FileAt(scene_file).data
    IN  [scene_num |-> scene_number,
         objs_info |-> [k \in 1..Len(data) |-> add_obj_info(data[k])],
         cam_traj  |-> <<>>]

\* int(name[-4:]) raises ValueError on some object of the file
RaisesValueError(scene_file) ==
    \E k \in 1..Len(FileAt(scene_file).data) :
        ~IsDecimal(Last4(FileAt(scene_file).data[k].id))

\* The objects from position k on, each taking the first file of `files`
\* whose path contains its name, the file then taken out of the list.
RECURSIVE ObjTrajRemoving(_, _, _)
ObjTrajRemoving(objs, k, files) ==
    IF k > Len(objs) THEN objs
    ELSE LET hits == {j \in 1..Len(files) : Contains(files[j], objs[k].name)}
         IN  IF hits = {} THEN ObjTrajRemoving(objs, k + 1, files)
             ELSE ObjTrajRemoving(
                      [objs EXCEPT ![k] = add_traj(objs[k], files[SetMin(hits)])],
                      k + 1,
                      SubSeq(files, 1, SetMin(hits) - 1)
                          \o SubSeq(files, SetMin(hits) + 1, Len(files)))

\* A matched file removed from the candidate list of the scene.
Scene_add_obj_traj_removing(scene, scene_files) ==
    [scene EXCEPT !.objs_info = ObjTrajRemoving(scene.objs_info, 1, scene_files)]

\* Scene.add_obj_traj: each object takes the first file, in list order,
\* whose path contains its name; the list is the same for every object.
Scene_add_obj_traj(scene, scene_files) ==
    [scene EXCEPT !.objs_info =
        [k \in 1..Len(scene.objs_info) |->
            LET obj  == scene.objs_info[k]
                hits == {j \in 1..Len(scene_files) : Contains(scene_files[j], obj.name)}
            IN  IF hits = {} THEN obj
                ELSE add_traj(obj, scene_files[SetMin(hits)])]]

\* Scene.add_cam_traj: json.load gives a list of dicts, and the loop body reads
\* cam_pose_time.rotation, an attribute no dict has.
Scene_add_cam_traj(scene, cam_traj_file) ==
    IF FileAt(cam_traj_file).data = <<>>
    THEN [scene |-> scene, err |-> ""]
    ELSE [scene |-> scene, err |-> "AttributeError"]

\* Participant.add_objects on a fresh Participant
Participant_add_objects(part_files, nums) ==
    [part_num |-> nums[1][1],
     scenes   |-> [k \in 1..PyMin(Len(nums), Len(part_files)) |->
                      Scene_add_objects(part_files[k], nums[k][2])]]

\* Python list comprehension with a condition: the elements of s at the
\* positions in `keep`, in the order of s
Filter(s, keep) ==
    LET F[n \in 0..Len(s)] ==
            IF n = 0 THEN <<>>
            ELSE IF n \in keep THEN Append(F[n - 1], s[n]) ELSE F[n - 1]
    IN  F[Len(s)]

\* Every file of the participant taken, whatever its scene number.
SceneFilesOfAnyScene(scene, part_files, nums) == part_files

\* The scene_files of one scene (line 145)
SceneFiles(scene, part_files, nums) ==
    Filter(part_files, {k \in 1..Len(part_files) : nums[k][2] = scene.scene_num})

\* The body of the loop of Participant.add_trajectories for one scene
\* (lines 145-150); cams.given says whether camera lists were passed.
AddSceneTrajectories(part_num, scene, part_files, nums, cams) ==
    LET withObjs == Scene_add_obj_traj(scene, SceneFiles(scene, part_files, nums))
    IN  IF ~cams.given THEN [scene |-> withObjs, err |-> ""]
        ELSE LET at == {k \in 1..Len(cams.nums) :
                            cams.nums[k] = <<part_num, scene.scene_num>>}
             IN  IF at = {} THEN [scene |-> withObjs, err |-> "ValueError"]
                 ELSE Scene_add_cam_traj(withObjs, cams.files[SetMin(at)])

\* Participant.add_trajectories: the scenes in order, stopping at the first
\* exception.
RECURSIVE AddTrajectoriesFrom(_, _, _, _, _)
AddTrajectoriesFrom(part, k, part_files, nums, cams) ==
    IF k > Len(part.scenes) THEN [part |-> part, err |-> ""]
    ELSE LET r == AddSceneTrajectories(part.part_num, part.scenes[k],
                                       part_files, nums, cams)
             p == [part EXCEPT !.scenes[k] = r.scene]
         IN  IF r.err # "" THEN [part |-> p, err |-> r.err]
             ELSE AddTrajectoriesFrom(p, k + 1, part_files, nums, cams)

Participant_add_trajectories(part, part_files, nums, cams) ==
    AddTrajectoriesFrom(part, 1, part_files, nums, cams)

---------------------------------------------------------------------------
(* BoxED.__init__: load_pick_place, then load_trajectories *)

\* One iteration of the loop of load_pick_place (lines 204-213) for loop
\* variable i, Python's 0-based indices kept.
PickPlaceLoopBody(parts, start, i, files, nums) ==
    LET n       == Len(nums)
        new(lo, hi) == Participant_add_objects(SubSeq(files, lo + 1, hi),
                                               SubSeq(nums, lo + 1, hi))
        differ  == nums[start + 1][1] # nums[i + 1][1]
        parts1  == IF differ THEN Append(parts, new(start, i))
                   ELSE IF i = n - 1 THEN Append(parts, new(start, i + 1))
                   ELSE parts
        read1   == IF differ THEN SubSeq(files, start + 1, i)
                   ELSE IF i = n - 1 THEN SubSeq(files, start + 1, i + 1)
                   ELSE <<>>
        start1  == IF differ THEN i ELSE start
        special == i = n - 1 /\ nums[start1 + 1][1] # nums[i + 1][1]
        parts2  == IF special THEN Append(parts1, new(i, i + 1)) ELSE parts1
        read2   == IF special THEN read1 \o SubSeq(files, i + 1, i + 1) ELSE read1
    IN  [participants |-> parts2, start_idx |-> start1, read |-> read2]

\* The files load_trajectories hands to one participant (lines 227-241):
\* its trajectory files, the camera files split off.
PartTrajectoryFiles(part, files, nums) ==
    LET mine(k)   == nums[k][1] = part.part_num
        isCam(k)  == mine(k) /\ Contains(files[k], MAIN_CAMERA)
        isObj(k)  == mine(k) /\ ~Contains(files[k], MAIN_CAMERA)
        objs      == {k \in 1..Len(files) : isObj(k)}
        cams      == {k \in 1..Len(files) : isCam(k)}
    IN  [part_files     |-> Filter(files, objs),
         part_nums      |-> Filter(nums, objs),
         cam_part_files |-> Filter(files, cams),
         cam_part_nums  |-> Filter(nums, cams)]

MainInit ==
    /\ load_cam_traj \in BOOLEAN
    /\ pc = "init"
    /\ err = ""
    /\ pickplace_files = <<>>
    /\ pp_nums = <<>>
    /\ start_idx = 0
    /\ loop_i = 0
    /\ trajectory_files = <<>>
    /\ traj_nums = <<>>
    /\ part_idx = 0
    /\ participants = <<>>
    /\ call = [fn |-> "none", arg1 |-> None, arg2 |-> None]
    /\ ret = None

MainIdle ==
    /\ load_cam_traj = FALSE
    /\ pc = "idle"
    /\ err = ""
    /\ pickplace_files = <<>>
    /\ pp_nums = <<>>
    /\ start_idx = 0
    /\ loop_i = 0
    /\ trajectory_files = <<>>
    /\ traj_nums = <<>>
    /\ part_idx = 0
    /\ participants = <<>>
    /\ call = [fn |-> "none", arg1 |-> None, arg2 |-> None]
    /\ ret = None

\* load_pick_place up to its loop: the crawl for PickPlace files.
LoadPickPlaceStart ==
    /\ pc = "init"
    /\ \E order \in WalkOrders(fs) :
          LET r == file_crawler(order, PICKPLACE, FALSE)
          IN  /\ pickplace_files' = r[1]
              /\ pp_nums' = r[2]
    /\ start_idx' = 0
    /\ loop_i' = 0
    /\ pc' = "load_pick_place"
    /\ UNCHANGED <<nameVars, fs, crawlVars, load_cam_traj, err, trajectory_files,
                   traj_nums, part_idx, participants, call, ret>>

\* One iteration of the loop of load_pick_place.
LoadPickPlaceIter ==
    /\ pc = "load_pick_place"
    /\ loop_i < Len(pp_nums)
    /\ LET r == PickPlaceLoopBody(participants, start_idx, loop_i,
                                  pickplace_files, pp_nums)
       IN  IF \E k \in 1..Len(r.read) : RaisesValueError(r.read[k])
           THEN /\ pc' = "raised"
                /\ err' = "ValueError"
                /\ UNCHANGED <<participants, start_idx, loop_i>>
           ELSE /\ participants' = r.participants
                /\ start_idx' = r.start_idx
                /\ loop_i' = loop_i + 1
                /\ UNCHANGED <<pc, err>>
    /\ UNCHANGED <<nameVars, fs, crawlVars, load_cam_traj, pickplace_files, pp_nums,
                   trajectory_files, traj_nums, part_idx, call, ret>>

\* load_trajectories up to its loop: the crawl for trajectory files.
LoadTrajectoriesStart ==
    /\ pc = "load_pick_place"
    /\ loop_i = Len(pp_nums)
    /\ \E order \in WalkOrders(fs) :
          LET r == file_crawler(order, TRAJECTORY, FALSE)
          IN  /\ trajectory_files' = r[1]
              /\ traj_nums' = r[2]
    /\ part_idx' = 0
    /\ pc' = IF participants = <<>> THEN "done" ELSE "load_trajectories"
    /\ UNCHANGED <<nameVars, fs, crawlVars, load_cam_traj, err, pickplace_files,
                   pp_nums, start_idx, loop_i, participants, call, ret>>

\* One iteration of the loop of load_trajectories, for one participant.
LoadTrajectoriesIter ==
    /\ pc = "load_trajectories"
    /\ part_idx < Len(participants)
    /\ LET part == participants[part_idx + 1]
           t    == PartTrajectoryFiles(part, trajectory_files, traj_nums)
           cams == IF load_cam_traj
                   THEN [given |-> TRUE, files |-> t.cam_part_files,
                         nums |-> t.cam_part_nums]
                   ELSE [given |-> FALSE, files |-> <<>>, nums |-> <<>>]
           r    == Participant_add_trajectories(part, t.part_files, t.part_nums, cams)
       IN  /\ participants' = [participants EXCEPT ![part_idx + 1] = r.part]
           /\ err' = r.err
           /\ pc' = IF r.err # "" THEN "raised"
                    ELSE IF part_idx + 1 = Len(participants) THEN "done"
                    ELSE "load_trajectories"
    /\ part_idx' = part_idx + 1
    /\ UNCHANGED <<nameVars, fs, crawlVars, load_cam_traj, pickplace_files, pp_nums,
                   start_idx, loop_i, trajectory_files, traj_nums, call, ret>>

---------------------------------------------------------------------------
(* The queries *)

UNIQ_OBJS == 26

START_TOKEN == <<"<","s","t","a","r","t",">">>

ALL_NAME == <<"a","l","l">>

ALL_OBJS ==
    { <<"0","0","2"," ","m","a","s","t","e","r","c","h","e","f"," ","c","a","n">>,
      <<"0","0","3"," ","c","r","a","c","k","e","r"," ","b","o","x">>,
      <<"0","0","4"," ","s","u","g","a","r"," ","b","o","x">>,
      <<"0","0","5"," ","t","o","m","a","t","o"," ","s","o","u","p"," ","c","a","n">>,
      <<"0","0","6"," ","m","u","s","t","a","r","d"," ","b","o","t","t","l","e">>,
      <<"0","0","7"," ","t","u","n","a"," ","f","i","s","h"," ","c","a","n">>,
      <<"0","0","8"," ","p","u","d","d","i","n","g"," ","b","o","x">>,
      <<"0","1","0"," ","p","o","t","t","e","d"," ","m","e","a","t"," ","c","a","n">>,
      <<"0","1","1"," ","b","a","n","a","n","a">>,
      <<"0","1","2"," ","s","t","r","a","w","b","e","r","r","y">>,
      <<"0","1","3"," ","a","p","p","l","e">>,
      <<"0","1","4"," ","l","e","m","o","n">>,
      <<"0","1","5"," ","p","e","a","c","h">>,
      <<"0","1","6"," ","p","e","a","r">>,
      <<"0","1","7"," ","o","r","a","n","g","e">>,
      <<"0","1","8"," ","p","l","u","m">>,
      <<"0","2","1"," ","b","l","e","a","c","h"," ","c","l","e","a","n","s","e","r">>,
      <<"0","2","5"," ","m","u","g">>,
      <<"0","5","7"," ","r","a","c","q","u","e","t","b","a","l","l">>,
      <<"0","5","8"," ","g","o","l","f"," ","b","a","l","l">>,
      <<"1","0","0"," ","h","a","l","f"," ","e","g","g"," ","c","a","r","t","o","n">>,
      <<"1","0","1"," ","b","r","e","a","d">>,
      <<"1","0","2"," ","t","o","o","t","h","b","r","u","s","h">>,
      <<"1","0","3"," ","t","o","o","t","h","p","a","s","t","e">> }

Name_mug == <<"0","2","5"," ","m","u","g">>

Name_pear == <<"0","1","6"," ","p","e","a","r">>

Name_banana == <<"0","1","1"," ","b","a","n","a","n","a">>

Name_unknown == <<"b","o","x">>

\* The names the model passes to get_grasp_poses.
QueryNames == {Name_mug, Name_pear, Name_banana, Name_unknown}

RECURSIVE Concat(_)
Concat(ss) == IF ss = <<>> THEN <<>> ELSE Head(ss) \o Concat(Tail(ss))

\* The scenes of one participant that get_sequences visits (lines 261-264)
SequencesOfParticipant(participant, unique_objs_only, start_token) ==
    LET keep == {k \in 1..Len(participant.scenes) :
                    ~(unique_objs_only /\ participant.scenes[k].scene_num >= 2)}
        seq(scene) ==
            LET scene_seq == [j \in 1..Len(scene.objs_info) |-> scene.objs_info[j].name]
            IN  IF start_token THEN <<START_TOKEN>> \o scene_seq ELSE scene_seq
        kept == Filter(participant.scenes, keep)
    IN  [k \in 1..Len(kept) |-> seq(kept[k])]

\* BoxED.get_sequences
get_sequences(unique_objs_only, start_token) ==
    LET keep    == {k \in 1..Len(participants) :
                       ~(unique_objs_only /\ participants[k].part_num < UNIQ_OBJS)}
        kept    == Filter(participants, keep)
    IN  Concat([k \in 1..Len(kept) |->
                   SequencesOfParticipant(kept[k], unique_objs_only, start_token)])

\* Every object of the dataset in participant, scene, packing order.
AllObjects ==
    Concat([p \in 1..Len(participants) |->
              Concat([k \in 1..Len(participants[p].scenes) |->
                        participants[p].scenes[k].objs_info])])

\* A key made for every target name before the scan.
GraspPosesKeyedUpFront(grasp_type, target_objs) ==
    LET objs    == AllObjects
        pose(o) == IF grasp_type = "pick" THEN o.pick_pose ELSE o.place_pose
    IN  [n \in target_objs |->
            LET mine == Filter(objs, {k \in 1..Len(objs) : objs[k].name = n})
            IN  [k \in 1..Len(mine) |-> pose(mine[k])]]

\* The loop of get_grasp_poses (lines 318-329): a key is made when the
\* first object of that name is met, and every such object appends a pose.
GraspPoses(grasp_type, target_objs) ==
    LET objs     == AllObjects
        hitObjs  == Filter(objs, {k \in 1..Len(objs) : objs[k].name \in target_objs})
        keys     == {hitObjs[k].name : k \in 1..Len(hitObjs)}
        pose(o)  == IF grasp_type = "pick" THEN o.pick_pose ELSE o.place_pose
    IN  [n \in keys |->
            LET mine == Filter(hitObjs, {k \in 1..Len(hitObjs) : hitObjs[k].name = n})
            IN  [k \in 1..Len(mine) |-> pose(mine[k])]]

\* BoxED.get_grasp_poses; objs is [str |-> name] or [list |-> names].
get_grasp_poses(grasp_type, objs) ==
    IF grasp_type \notin {"pick", "place"} THEN "SystemExit"
    ELSE IF objs.kind = "str"
         THEN IF objs.val = ALL_NAME
              THEN GraspPoses(grasp_type, ALL_OBJS)
              ELSE IF objs.val \in ALL_OBJS
                   THEN GraspPoses(grasp_type, {objs.val})
                   ELSE "SystemExit"
         ELSE IF \A j \in 1..Len(objs.val) : objs.val[j] \in ALL_OBJS
              THEN GraspPoses(grasp_type, {objs.val[j] : j \in 1..Len(objs.val)})
              ELSE "SystemExit"

GraspArgs ==
    {[kind |-> "list", val |-> <<n>>] : n \in QueryNames}
        \cup {[kind |-> "str", val |-> ALL_NAME]}

CallGetSequences ==
    /\ pc = "done"
    /\ \E u \in BOOLEAN, t \in BOOLEAN :
          /\ call' = [fn |-> "get_sequences", arg1 |-> u, arg2 |-> t]
          /\ ret' = get_sequences(u, t)
    /\ UNCHANGED <<nameVars, fs, crawlVars, load_cam_traj, pc, err, pickplace_files,
                   pp_nums, start_idx, loop_i, trajectory_files, traj_nums,
                   part_idx, participants>>

CallGetGraspPoses ==
    /\ pc = "done"
    /\ \E g \in {"pick", "place", "grab"}, o \in GraspArgs :
          /\ call' = [fn |-> "get_grasp_poses", arg1 |-> g, arg2 |-> o]
          /\ ret' = get_grasp_poses(g, o)
    /\ UNCHANGED <<nameVars, fs, crawlVars, load_cam_traj, pc, err, pickplace_files,
                   pp_nums, start_idx, loop_i, trajectory_files, traj_nums,
                   part_idx, participants>>

---------------------------------------------------------------------------
(* The specifications *)

FilesOf(U, n) == {S \in SUBSET U : Cardinality(S) <= n}

Init ==
    /\ fs \in FilesOf(Universe, MaxFiles)
    /\ MainInit
    /\ NameIdle
    /\ CrawlIdle

Next ==
    \/ LoadPickPlaceStart
    \/ LoadPickPlaceIter
    \/ LoadTrajectoriesStart
    \/ LoadTrajectoriesIter
    \/ CallGetSequences
    \/ CallGetGraspPoses

Spec == Init /\ [][Next]_vars

InitCrawl ==
    /\ fs \in FilesOf(CrawlUniverse, MaxFiles)
    /\ CrawlInit
    /\ NameIdle
    /\ MainIdle

NextCrawl ==
    \/ Walk
    \/ Return

SpecCrawl == InitCrawl /\ [][NextCrawl]_vars

InitName ==
    /\ fs = {}
    /\ NameInit
    /\ CrawlIdle
    /\ MainIdle

NextName == CleanName

SpecName == InitName /\ [][NextName]_vars

---------------------------------------------------------------------------
(* Properties of load_pick_place *)

\* load_pick_place has returned.
PickPlaceLoaded ==
    \/ pc \in {"load_trajectories", "done"}
    \/ pc = "load_pick_place" /\ loop_i = Len(pp_nums)

\* The scenes of all participants in order, each with its participant number.
AllScenes ==
    Concat([p \in 1..Len(participants) |->
              [k \in 1..Len(participants[p].scenes) |->
                  [part_num |-> participants[p].part_num,
                   scene    |-> participants[p].scenes[k]]]])

\* Scene `sc` of participant `pn` is the scene of PickPlace file `path`
\* with identity `num`.
SceneIsOfFile(pn, sc, path, num) ==
    LET data == FileAt(path).data
    IN  /\ pn = num[1]
        /\ sc.scene_num = num[2]
        /\ Len(sc.objs_info) = Len(data)
        /\ \A j \in 1..Len(data) :
              /\ sc.objs_info[j].name = get_clean_name(data[j].id)
              /\ sc.objs_info[j].pick_pose
                    = Pose(data[j].pickRotation, data[j].pickTranslation)

\* C1: after load_pick_place there is exactly one Participant per distinct
\* participant number of the identity-sorted list of PickPlace files, and the
\* Scenes of all Participants, in order, are the files of the list one for
\* one, also when the last file is the only file of its participant.
C1_OneSceneForEveryFile ==
    PickPlaceLoaded =>
        /\ Len(participants)
              = Cardinality({pp_nums[i][1] : i \in 1..Len(pp_nums)})
        /\ {participants[p].part_num : p \in 1..Len(participants)}
              = {pp_nums[i][1] : i \in 1..Len(pp_nums)}
        /\ Len(AllScenes) = Len(pickplace_files)
        /\ \A i \in 1..PyMin(Len(AllScenes), Len(pickplace_files)) :
              SceneIsOfFile(AllScenes[i].part_num, AllScenes[i].scene,
                            pickplace_files[i], pp_nums[i])

StrictlyAscending(s) == \A i \in 1..(Len(s) - 1) : s[i] < s[i + 1]

NonDecreasing(s) == \A i \in 1..(Len(s) - 1) : s[i] <= s[i + 1]

PartNums == [p \in 1..Len(participants) |-> participants[p].part_num]

SceneNums(p) ==
    [k \in 1..Len(participants[p].scenes) |-> participants[p].scenes[k].scene_num]

\* No two PickPlace files of the root folder have the same identity.
PickPlaceIdentitiesDistinct ==
    \A f, g \in fs :
        (/\ Contains(f.name, PICKPLACE)
         /\ Contains(g.name, PICKPLACE)
         /\ DigitRuns(f.dir) = DigitRuns(g.dir)) => f = g

---------------------------------------------------------------------------
(* Properties of file_crawler *)

\* Position of the file with path `path` in a walk order.
WalkPos(walk, path) == CHOOSE k \in 1..Len(walk) : PathOf(walk[k]) = path

\* What a returned pair of lists must satisfy for C3.
PairedAndSorted(res) ==
    /\ Len(res[1]) = Len(res[2])
    /\ \A i \in 1..Len(res[1]) :
          /\ \E f \in fs : PathOf(f) = res[1][i]
          /\ res[2][i] = DigitRuns(FileAt(res[1][i]).dir)
    /\ \A i \in 1..(Len(res[2]) - 1) :
          \/ res[2][i][1] < res[2][i + 1][1]
          \/ /\ res[2][i][1] = res[2][i + 1][1]
             /\ res[2][i][2] <= res[2][i + 1][2]

\* C3: file_crawler returns two lists of equal length, the i-th identity being
\* the one extracted from the directory path of the i-th file, and the
\* identities non-decreasing by participant number, then scene number.
C3_PairedAfterSorting ==
    /\ run = 2 => PairedAndSorted(result1)
    /\ crawlPc = "done" => PairedAndSorted(result2)

\* A run returned three files in another order than the walk found them.
C3_Witness ==
    /\ run = 2
    /\ Len(result1[1]) = 3
    /\ Len(walk1) = 3
    /\ \E i \in 1..3 : PathOf(walk1[i]) # result1[1][i]

\* C4: for a fixed set of files, two runs of file_crawler whose walks
\* enumerate the files in any two orders return the same two lists.
C4_WalkOrderNeverShows ==
    crawlPc = "done" => result1 = result2

\* Two files of equal identity that are in the result of a run.
Tie(res, i, j) == i < j /\ res[2][i] = res[2][j]

\* The two runs found two returned files of equal identity in opposite
\* orders.
C4_Witness ==
    /\ crawlPc = "done"
    /\ \E i, j \in 1..Len(result1[1]) :
          /\ Tie(result1, i, j)
          /\ WalkPos(walk1, result1[1][i]) < WalkPos(walk1, result1[1][j])
          /\ WalkPos(walked, result1[1][i]) > WalkPos(walked, result1[1][j])

\* C5 as stated: files of equal identity are returned in the order in which
\* the walk discovered them.
C5_TiesInDiscoveryOrder ==
    run = 2 =>
        \A i, j \in 1..Len(result1[1]) :
            Tie(result1, i, j) =>
                WalkPos(walk1, result1[1][i]) < WalkPos(walk1, result1[1][j])

\* C5 as amended: files of equal identity are returned in ascending order of
\* their paths, whatever the order in which the walk discovered them.
C5_TiesInPathOrder ==
    /\ run = 2 =>
          \A i, j \in 1..Len(result1[1]) :
              Tie(result1, i, j) => StrLess(result1[1][i], result1[1][j])
    /\ crawlPc = "done" =>
          \A i, j \in 1..Len(result2[1]) :
              Tie(result2, i, j) => StrLess(result2[1][i], result2[1][j])

\* A run returned two files of equal identity in the reverse of the order
\* in which its walk discovered them.
C5_Witness ==
    /\ run = 2
    /\ \E i, j \in 1..Len(result1[1]) :
          /\ Tie(result1, i, j)
          /\ WalkPos(walk1, result1[1][i]) > WalkPos(walk1, result1[1][j])

---------------------------------------------------------------------------
(* Properties of get_clean_name *)

\* The canonical name as C6 describes it; Len(rawName) + 1 stands for an
\* absent delimiter (+infinity, no truncation).
ClaimedCleanName(name) ==
    LET absent == Len(name) + 1
        i1     == IF Find(name, "(") = -1 THEN absent ELSE Find(name, "(")
        i2     == IF Find(name, "-") = -1 THEN absent ELSE Find(name, "-")
        small  == PyMin(i1, i2)
        large  == PyMax(i1, i2)
        k      == IF small = 0 THEN large ELSE small
    IN  IF k = absent THEN name ELSE SubSeq(name, 1, k)

\* C6: get_clean_name returns rawName unchanged when it holds no delimiter,
\* and otherwise the prefix before the smaller delimiter index (the larger one
\* when the smaller is 0, an absent delimiter counting as +infinity); so a
\* non-empty rawName that starts with a delimiter never yields the empty name.
C6_CleanNameAsDescribed ==
    namePc = "returned" =>
        /\ cleanName = ClaimedCleanName(rawName)
        /\ (rawName # <<>> /\ rawName[1] \in {"(", "-"}) => cleanName # <<>>

---------------------------------------------------------------------------
(* Properties of load_trajectories *)

\* The positions, in the identity-sorted list of trajectory files, of the
\* object-trajectory files of participant `pn` (camera files excluded).
ObjectFilesOf(pn) ==
    {k \in 1..Len(trajectory_files) :
        /\ traj_nums[k][1] = pn
        /\ ~Contains(trajectory_files[k], MAIN_CAMERA)}

\* The trajectory of an object loaded from the first of the positions
\* `hits` of the list of trajectory files; empty when there is none.
FirstMatchTrajectory(hits) ==
    IF hits = {} THEN <<>> ELSE LoadTraj(trajectory_files[SetMin(hits)])

FileNameAt(k) == FileAt(trajectory_files[k]).name

\* C7 as stated: the candidate files of every Object of a Scene are all
\* object-trajectory files of the Scene's participant, whatever their scene
\* number, and the trajectory is loaded from the first candidate, in list
\* order, whose name contains the Object's canonical name.
C7_CandidatesOfAnyScene ==
    pc = "done" =>
        \A p \in 1..Len(participants) :
            \A k \in 1..Len(participants[p].scenes) :
                \A j \in 1..Len(participants[p].scenes[k].objs_info) :
                    LET obj  == participants[p].scenes[k].objs_info[j]
                        hits == {c \in ObjectFilesOf(participants[p].part_num) :
                                    Contains(FileNameAt(c), obj.name)}
                    IN  obj.trajectory = FirstMatchTrajectory(hits)

\* C7 as amended: the candidate files of every Object of a Scene are the
\* object-trajectory files of the Scene's participant whose identity carries
\* the Scene's scene number, and the trajectory is loaded from the first
\* candidate, in list order, whose path contains the Object's canonical name
\* (it stays empty when there is none).
C7_CandidatesOfTheSameScene ==
    pc = "done" =>
        \A p \in 1..Len(participants) :
            \A k \in 1..Len(participants[p].scenes) :
                \A j \in 1..Len(participants[p].scenes[k].objs_info) :
                    LET sc   == participants[p].scenes[k]
                        obj  == sc.objs_info[j]
                        hits == {c \in ObjectFilesOf(participants[p].part_num) :
                                    /\ traj_nums[c][2] = sc.scene_num
                                    /\ Contains(trajectory_files[c], obj.name)}
                    IN  obj.trajectory = FirstMatchTrajectory(hits)

\* A constructed dataset where an Object was loaded from a file of its own
\* scene while a file of another scene of its participant contains its name
\* too.
C7_Witness ==
    /\ pc = "done"
    /\ \E p \in 1..Len(participants) :
          \E k \in 1..Len(participants[p].scenes) :
              \E j \in 1..Len(participants[p].scenes[k].objs_info) :
                  LET sc  == participants[p].scenes[k]
                      obj == sc.objs_info[j]
                  IN  /\ obj.trajectory # <<>>
                      /\ \E c \in ObjectFilesOf(participants[p].part_num) :
                            /\ traj_nums[c][2] # sc.scene_num
                            /\ Contains(trajectory_files[c], obj.name)

---------------------------------------------------------------------------
(* Properties of the queries *)

\* get_grasp_poses(kind, [n]) was called with a catalog name n.
GraspCallFor(n) ==
    /\ call.fn = "get_grasp_poses"
    /\ call.arg1 \in {"pick", "place"}
    /\ call.arg2 = [kind |-> "list", val |-> <<n>>]
    /\ n \in ALL_OBJS

ScenesHolding(n) ==
    {i \in 1..Len(AllScenes) :
        \E j \in 1..Len(AllScenes[i].scene.objs_info) :
            AllScenes[i].scene.objs_info[j].name = n}

ObjectsNamed(n) == {k \in 1..Len(AllObjects) : AllObjects[k].name = n}

\* C8 as stated: get_grasp_poses(kind, [n]) returns a mapping with exactly
\* the key n, whose list is as long as the number of Scenes that hold an
\* Object named n.
C8_OnePosePerScene ==
    \A n \in QueryNames :
        GraspCallFor(n) =>
            /\ DOMAIN ret = {n}
            /\ Len(ret[n]) = Cardinality(ScenesHolding(n))

\* C8 as amended: get_grasp_poses(kind, [n]) returns a mapping whose only
\* possible key is n; the key is present exactly when some Object of the
\* dataset is named n, and its list then holds one pose for every such
\* Object, a Scene with several of them counted once for each.
C8_OnePosePerObject ==
    \A n \in QueryNames :
        GraspCallFor(n) =>
            /\ DOMAIN ret \subseteq {n}
            /\ (n \in DOMAIN ret) <=> (ObjectsNamed(n) # {})
            /\ n \in DOMAIN ret =>
                  /\ Len(ret[n]) = Cardinality(ObjectsNamed(n))
                  /\ \A k \in 1..Len(ret[n]) :
                        \E o \in ObjectsNamed(n) :
                            ret[n][k] = IF call.arg1 = "pick"
                                        THEN AllObjects[o].pick_pose
                                        ELSE AllObjects[o].place_pose

\* A call answered with more poses for n than there are Scenes holding n.
C8_Witness ==
    \E n \in QueryNames :
        /\ GraspCallFor(n)
        /\ n \in DOMAIN ret
        /\ Len(ret[n]) > Cardinality(ScenesHolding(n))

\* The sequences of the Scenes whose identity passes the uniq_seqs test of
\* file_crawler, in participant/scene order.
SequencesPassingUniq(start_token) ==
    LET keep      == {i \in 1..Len(AllScenes) :
                         PassesUniq(<<AllScenes[i].part_num,
                                      AllScenes[i].scene.scene_num>>)}
        kept      == Filter(AllScenes, keep)
        names(sc) == [j \in 1..Len(sc.objs_info) |-> sc.objs_info[j].name]
    IN  [i \in 1..Len(kept) |->
            IF start_token THEN <<START_TOKEN>> \o names(kept[i].scene)
            ELSE names(kept[i].scene)]

\* C9: get_sequences(unique_objs_only=True) returns, in participant/scene
\* order, the sequences of exactly the Scenes whose identity passes the
\* uniq_seqs test of file_crawler: scene number 1 and participant number at
\* least 26.
C9_SameFilterAsCrawler ==
    (call.fn = "get_sequences" /\ call.arg1 = TRUE) =>
        ret = SequencesPassingUniq(call.arg2)

\* Every Scene of the dataset has a camera-trajectory file with its identity.
CameraFileOf(pn, sn) ==
    {f \in fs : Contains(f.name, MAIN_CAMERA) /\ DigitRuns(f.dir) = <<pn, sn>>}

EverySceneHasCamera ==
    \A i \in 1..Len(AllScenes) :
        CameraFileOf(AllScenes[i].part_num, AllScenes[i].scene.scene_num) # {}

\* C10: with load_cam_traj true and a camera-trajectory file for every Scene,
\* construction completes and the camera trajectory of each Scene is the
\* list of records of its file, parsed like an object trajectory file.
C10_CameraTrajectoriesLoaded ==
    (load_cam_traj /\ pc \in {"done", "raised"} /\ EverySceneHasCamera) =>
        /\ pc = "done"
        /\ \A i \in 1..Len(AllScenes) :
              \A f \in CameraFileOf(AllScenes[i].part_num,
                                    AllScenes[i].scene.scene_num) :
                  AllScenes[i].scene.cam_traj = LoadTraj(PathOf(f))

---------------------------------------------------------------------------
(* Properties of Scene.add_obj_traj *)

\* The positions, in the identity-sorted list of trajectory files, of the
\* candidate files of scene `sc` of participant `pn` whose path contains
\* `name`.
CandidateHits(pn, sc, name) ==
    {c \in ObjectFilesOf(pn) :
        /\ traj_nums[c][2] = sc.scene_num
        /\ Contains(trajectory_files[c], name)}

\* Objects a and b of scene `sc` have the same first-matching file.
SameFirstMatch(pn, sc, a, b) ==
    /\ a # b
    /\ CandidateHits(pn, sc, sc.objs_info[a].name) # {}
    /\ CandidateHits(pn, sc, sc.objs_info[b].name) # {}
    /\ SetMin(CandidateHits(pn, sc, sc.objs_info[a].name))
          = SetMin(CandidateHits(pn, sc, sc.objs_info[b].name))

\* C11: a match never removes the file from the candidate list of the Scene:
\* every Object is matched against the same full list in the same order, so
\* two Objects of a Scene whose names are both contained in the same
\* first-matching file are both loaded from that file and end with equal
\* trajectories.
C11_MatchedFileStaysCandidate ==
    pc = "done" =>
        \A p \in 1..Len(participants) :
            \A k \in 1..Len(participants[p].scenes) :
                LET pn == participants[p].part_num
                    sc == participants[p].scenes[k]
                IN  \A a, b \in 1..Len(sc.objs_info) :
                        SameFirstMatch(pn, sc, a, b) =>
                            LET first == SetMin(CandidateHits(pn, sc, sc.objs_info[a].name))
                            IN  /\ sc.objs_info[a].trajectory
                                      = LoadTraj(trajectory_files[first])
                                /\ sc.objs_info[b].trajectory
                                      = LoadTraj(trajectory_files[first])
                                /\ sc.objs_info[a].trajectory = sc.objs_info[b].trajectory

\* A constructed dataset where two Objects of one Scene were loaded from the
\* same file although a second candidate file contains both names and holds
\* another trajectory.
C11_Witness ==
    /\ pc = "done"
    /\ \E p \in 1..Len(participants) :
          \E k \in 1..Len(participants[p].scenes) :
              LET pn == participants[p].part_num
                  sc == participants[p].scenes[k]
              IN  \E a, b \in 1..Len(sc.objs_info) :
                      /\ SameFirstMatch(pn, sc, a, b)
                      /\ sc.objs_info[a].trajectory # <<>>
                      /\ sc.objs_info[a].trajectory = sc.objs_info[b].trajectory
                      /\ \E c \in CandidateHits(pn, sc, sc.objs_info[b].name) :
                            /\ c # SetMin(CandidateHits(pn, sc, sc.objs_info[a].name))
                            /\ LoadTraj(trajectory_files[c]) # sc.objs_info[b].trajectory

=============================================================================
